---- MODULE Spec2Model ----
(***************************************************************************)
(* Workflow executor of src/workflow/workflow__executor.py: one run of     *)
(* WorkflowExecutor.execute_workflow over a list of steps                  *)
(* (src/steps/step__base.py), with the in-memory state store               *)
(* (src/workflow/workflow__state.py).                                      *)
(*                                                                         *)
(* The scheduling loop is one process whose position is pc; every step     *)
(* dispatched in a wave is a task of asyncio.gather whose position is      *)
(* task[s].  Tasks of a wave interleave freely at their suspension points  *)
(* (the awaited execute and the backoff sleep).                            *)
(***************************************************************************)
EXTENDS Integers, Sequences, FiniteSets, TLC

(* ---------------------------- bounds ----------------------------------- *)
NumSteps == 2
MaxRetries == 2
MaxParallel == 2
MaxFaults == 2
MaxResumes == 2
MaxStoreCalls == 4
MaxBackoffRetries == 8
GraphSteps == 4
WaveSteps == 3
MaxWaves == 4

(* ---------------------------- values ----------------------------------- *)
\* Optional values: None is the empty tuple, Some(v) the one-element tuple.
None == <<>>
Some(v) == <<v>>

\* Texts a step's execute may return, as sequences of characters: the outputs of
\* step1 in test_skipped_step_unblocks_dependents ("x") and in
\* test_conditional_step_runs_when_condition_met ("one two three four five six",
\* every letter written x).
ShortText == <<"x">>
LongText == <<"x", "x", "x", " ", "x", "x", "x", " ", "x", "x", "x", "x", "x", " ",
              "x", "x", "x", "x", " ", "x", "x", "x", "x", " ", "x", "x", "x">>

Outputs == {ShortText, LongText}

\* min_words of the conditions of the tests.
MinWords == 5

\* Error messages, and the classifier patterns each lower-cased message contains.
NoError == "None"
ErrTemporary == "Temporary failure"
ErrMock == "Mock step failed"
ErrNotFound == "Step output not found in context"
ErrNotAvailable == "Step depends on step which is not available"
\* asyncio.TimeoutError raised by wait_for: its message is empty.
ErrTimeout == ""
ErrCondition == "condition raised"

\* Lines 196-198: the error _execute_step builds when wait_for times out; its
\* message holds the name of the step and its timeout_seconds (30.0 by default).
timed_out_messages ==
    <<"Step 'step1' timed out after 30.0s",
      "Step 'step2' timed out after 30.0s",
      "Step 'step3' timed out after 30.0s",
      "Step 'step4' timed out after 30.0s">>

timed_out(s) == timed_out_messages[s]

retryable_patterns == {"timeout", "connection", "rate limit", "429", "500", "502",
                       "503", "504", "temporary", "transient"}

non_retryable_patterns == {"authentication", "permission", "not found", "400", "401",
                           "403", "404", "invalid"}

\* str.lower(): upper-case letters become lower-case, everything else is kept.
LowerOf(c) ==
    CASE c = "A" -> "a" [] c = "B" -> "b" [] c = "C" -> "c" [] c = "D" -> "d"
      [] c = "E" -> "e" [] c = "F" -> "f" [] c = "G" -> "g" [] c = "H" -> "h"
      [] c = "I" -> "i" [] c = "J" -> "j" [] c = "K" -> "k" [] c = "L" -> "l"
      [] c = "M" -> "m" [] c = "N" -> "n" [] c = "O" -> "o" [] c = "P" -> "p"
      [] c = "Q" -> "q" [] c = "R" -> "r" [] c = "S" -> "s" [] c = "T" -> "t"
      [] c = "U" -> "u" [] c = "V" -> "v" [] c = "W" -> "w" [] c = "X" -> "x"
      [] c = "Y" -> "y" [] c = "Z" -> "z"
      [] OTHER -> c

RECURSIVE lower(_)
lower(text) ==
    IF Len(text) = 0 THEN ""
    ELSE LowerOf(SubSeq(text, 1, 1)) \o lower(SubSeq(text, 2, Len(text)))

\* pattern in error_str: pattern occurs in error_str as a substring.
Contains(error_str, pattern) ==
    \E i \in 1..(Len(error_str) - Len(pattern) + 1) :
        SubSeq(error_str, i, i + Len(pattern) - 1) = pattern

\* The patterns of both lists that occur in str(error).lower().
MatchedPatterns(msg) ==
    LET error_str == lower(msg)
    IN  {pattern \in retryable_patterns \cup non_retryable_patterns :
            Contains(error_str, pattern)}

\* The messages of the errors the steps of the workflows raise, with the patterns
\* that occur in each, computed once.
RaisedMessages ==
    {ErrTemporary, ErrMock, ErrNotFound, ErrNotAvailable, ErrTimeout, ErrCondition}
    \cup {timed_out_messages[i] : i \in DOMAIN timed_out_messages}

MatchedByRaised == [msg \in RaisedMessages |-> MatchedPatterns(msg)]

PatternsIn(msg) ==
    IF msg \in RaisedMessages THEN MatchedByRaised[msg] ELSE MatchedPatterns(msg)

\* Mutant: the retryable patterns are checked first.
is_retryable_error_RetryableFirst(error) ==
    IF PatternsIn(error) \cap retryable_patterns # {} THEN TRUE
    ELSE FALSE

\* Step.is_retryable_error: non-retryable patterns are checked first.
is_retryable_error(error) ==
    IF PatternsIn(error) \cap non_retryable_patterns # {} THEN FALSE
    ELSE IF PatternsIn(error) \cap retryable_patterns # {} THEN TRUE
    ELSE FALSE

\* Errors raised by the body of a step's execute.
ExecErrors == {ErrTemporary, ErrMock}

(* ------------------------ conditions ----------------------------------- *)
\* Characters str.strip() and str.split() take for whitespace.
Whitespace == {" ", "\t", "\n"}

\* text.strip(): drop leading and trailing whitespace.
RECURSIVE LStrip(_)
LStrip(text) ==
    IF text # <<>> /\ Head(text) \in Whitespace THEN LStrip(Tail(text)) ELSE text

RECURSIVE RStrip(_)
RStrip(text) ==
    IF text # <<>> /\ text[Len(text)] \in Whitespace
    THEN RStrip(SubSeq(text, 1, Len(text) - 1)) ELSE text

Strip(text) == RStrip(LStrip(text))

\* len(text.split()): number of maximal runs of characters that are not whitespace.
WordCount(text) ==
    Cardinality({i \in 1..Len(text) :
                    text[i] \notin Whitespace /\ (i = 1 \/ text[i - 1] \in Whitespace)})

\* condition_min_output_words(step_name, min_words)(context)
condition_min_output_words(step_name, min_words, step_outputs) ==
    IF step_name \notin DOMAIN step_outputs THEN FALSE
    ELSE IF step_outputs[step_name] = None THEN FALSE
    ELSE LET text == Strip(step_outputs[step_name][1])
             word_count == IF text # <<>> THEN WordCount(text) ELSE 0
         IN  word_count >= min_words

CondNone == [kind |-> "none", step_name |-> 0, min_words |-> 0]
CondRaises == [kind |-> "raises", step_name |-> 0, min_words |-> 0]
CondMinWords(s) == [kind |-> "min_words", step_name |-> s, min_words |-> MinWords]

\* Step.is_condition_met: "raise" when the caller's predicate throws.
is_condition_met(cond, step_outputs) ==
    CASE cond.kind = "none" -> "true"
      [] cond.kind = "raises" -> "raise"
      [] OTHER -> IF condition_min_output_words(cond.step_name, cond.min_words, step_outputs)
                  THEN "true" ELSE "false"

\* Step.get_dependency_output: the output, or the raised error.
get_dependency_output(step_outputs, step_name) ==
    IF step_name \notin DOMAIN step_outputs
    THEN [raised |-> TRUE, value |-> None]
    ELSE [raised |-> FALSE, value |-> step_outputs[step_name]]

\* Step.validate_dependencies: TRUE when it raises.
validate_dependencies_raises(deps, step_outputs) ==
    \E dep \in deps : dep \notin DOMAIN step_outputs

(* ------------------------------ state ---------------------------------- *)
VARIABLES
    step_map,            \* the submitted steps: name -> attributes
    max_parallel_steps,  \* WorkflowExecutor.max_parallel_steps
    pc,                  \* position of the scheduling loop: "idle", "loop", "gather", "done"
    pending_steps,
    completed_steps,
    failed_steps,
    wave,                \* executable[: max_parallel_steps] of the current iteration
    wave_no,             \* number of waves dispatched so far
    context,             \* step name -> step_outputs of the context built for it
    task,                \* step name -> position of its _execute_step_with_tracking
    state,               \* the WorkflowState of the run
    store_states,        \* InMemoryStateStore._states
    progress_events,     \* WorkflowExecutor._progress_events
    executions,          \* step name -> what each invocation of its execute did in this call
    now,                 \* time.time(): ticks when a task starts and at every attempt
    faults,              \* number of attempts that failed so far
    raised,              \* the exception the latest call raised to its caller
    call,                \* the latest call of execute_workflow or resume_workflow
    save_count,          \* number of calls of save_state so far
    resumes,             \* number of calls of resume_workflow so far
    store_calls,         \* the calls a client made on the store itself, with their results
    function_call        \* a call of a function of step__base.py on its own, with its result

vars == <<step_map, max_parallel_steps, pc, pending_steps, completed_steps, failed_steps,
          wave, wave_no, context, task, state, store_states, progress_events,
          executions, now, faults, raised, call, save_count, resumes, store_calls,
          function_call>>

\* No function of step__base.py is called on its own.
NoFunctionCall == [function |-> "none", arguments |-> <<>>, result |-> None]

\* The names of the steps submitted: step k of the list is named k.
Steps == DOMAIN step_map

WorkflowId == "wf"

NoException == [kind |-> "none", names |-> {}]

\* StepResult records (src/workflow/workflow__types.py); attempts defaults to 1,
\* error, started_at and completed_at to None, duration_ms to 0.0.
StepResult(status, output, error, duration_ms, attempts, started_at, completed_at) ==
    [status |-> status, output |-> output, error |-> error, duration_ms |-> duration_ms,
     attempts |-> attempts, started_at |-> started_at, completed_at |-> completed_at]

DefaultAttempts == 1

IdleTask == [pc |-> "idle", attempts |-> 0, start_time |-> 0, last_error |-> NoError,
             wave |-> 0, error |-> NoError, sleep |-> 0, backoffs |-> 0]

\* A dependency name that is the name of no step (test_missing_dependency).
nonexistent == 0

\* Smallest element: the first name in list order, steps being listed by name.
First(names) == CHOOSE n \in names : \A m \in names : n <= m

\* Mutant: unresolved references are not looked for.
unknown_dependency_Ignored(names, depends_on) == None

\* _build_dependency_graph, lines 250-253: the first step of the list, with its
\* first dependency, that names no step of the list; None if all resolve.
unknown_dependency(names, depends_on) ==
    LET offenders == {s \in names : depends_on[s] \ names # {}}
    IN  IF offenders = {} THEN None
        ELSE LET step == First(offenders)
             IN  Some([step |-> step, dep |-> First(depends_on[step] \ names)])

\* graph.get(node, set())
graph_get(graph, node) == IF node \in DOMAIN graph THEN graph[node] ELSE {}

RECURSIVE has_cycle(_, _, _, _)
RECURSIVE visit_neighbors(_, _, _, _)

\* The loop of has_cycle over the neighbors of a node: whether a back edge was
\* found, and the nodes visited.
visit_neighbors(graph, neighbors, visited, rec_stack) ==
    IF neighbors = {} THEN [found |-> FALSE, visited |-> visited]
    ELSE LET neighbor == First(neighbors)
             rest == neighbors \ {neighbor}
         IN  IF neighbor \notin visited
             THEN LET r == has_cycle(graph, neighbor, visited, rec_stack)
                  IN  IF r.found THEN r
                      ELSE visit_neighbors(graph, rest, r.visited, rec_stack)
             ELSE IF neighbor \in rec_stack
             THEN [found |-> TRUE, visited |-> visited]
             ELSE visit_neighbors(graph, rest, visited, rec_stack)

\* Mutant: a neighbor visited before is taken for a back edge, on the recursion
\* stack or not.
has_cycle_Revisit(graph, node, visited, rec_stack) ==
    IF graph_get(graph, node) \cap (visited \cup {node}) # {}
    THEN [found |-> TRUE, visited |-> visited \cup {node}]
    ELSE visit_neighbors(graph, graph_get(graph, node), visited \cup {node},
                         rec_stack \cup {node})

\* has_cycle of _validate_no_cycles: depth-first search with a recursion stack.
has_cycle(graph, node, visited, rec_stack) ==
    visit_neighbors(graph, graph_get(graph, node), visited \cup {node}, rec_stack \cup {node})

RECURSIVE validate_no_cycles_from(_, _, _)
validate_no_cycles_from(graph, nodes, visited) ==
    IF nodes = {} THEN None
    ELSE LET node == First(nodes)
         IN  IF node \in visited
             THEN validate_no_cycles_from(graph, nodes \ {node}, visited)
             ELSE LET r == has_cycle(graph, node, visited, {})
                  IN  IF r.found THEN Some(node)
                      ELSE validate_no_cycles_from(graph, nodes \ {node}, r.visited)

\* Mutant: no graph is found cyclic.
validate_no_cycles_Accepts(graph) == None

\* _validate_no_cycles: the node named in the error, None if it does not raise.
validate_no_cycles(graph) == validate_no_cycles_from(graph, DOMAIN graph, {})

\* _build_dependency_graph: the exception it raises, NoException if it returns.
build_dependency_graph(names, depends_on) ==
    LET unknown == unknown_dependency(names, depends_on)
    IN  IF unknown # None
        THEN [kind |-> "UnknownDependency", names |-> {unknown[1].step},
              dep |-> unknown[1].dep]
        ELSE LET node == validate_no_cycles([s \in names |-> depends_on[s]])
             IN  IF node # None
                 THEN [kind |-> "CircularDependency", names |-> {node[1]}]
                 ELSE NoException

\* The conditions a step of the model may carry: none, one that throws, or
\* condition_min_output_words on its last dependency (on itself, hence on a step
\* with no output yet, when it has none).
CondKinds == {"none", "raises", "min_words"}

ConditionOf(kind, s, deps) ==
    CASE kind = "none" -> CondNone
      [] kind = "raises" -> CondRaises
      [] OTHER -> CondMinWords(IF deps = {} THEN s
                               ELSE CHOOSE d \in deps : \A e \in deps : e <= d)

\* WorkflowExecutor.enable_progress_events, as the executor of the tests sets it.
enable_progress_events == TRUE

\* Dependency lists that _build_dependency_graph accepts: every DAG is a renaming
\* of one whose dependencies point to earlier steps of the list.
DependencyLists(names) ==
    {d \in [names -> SUBSET names] : \A s \in names : d[s] \subseteq 1..(s - 1)}

\* The names the steps of S depend on, and those reached in at most k hops.
DependenciesOf(depends_on, S) == UNION {depends_on[s] : s \in S \cap DOMAIN depends_on}

RECURSIVE DependsWithin(_, _, _)
DependsWithin(depends_on, S, k) ==
    IF k = 0 THEN {}
    ELSE DependenciesOf(depends_on, S)
             \cup DependsWithin(depends_on, DependenciesOf(depends_on, S), k - 1)

\* Every reference of the steps named resolves to one of them.
Resolves(depends_on, names) == \A s \in names : depends_on[s] \subseteq names

\* Step s lies on a directed cycle; some step of names does.
OnCycle(depends_on, s) ==
    s \in DependsWithin(depends_on, {s}, Cardinality(DOMAIN depends_on))
Cyclic(depends_on, names) == \E s \in names : OnCycle(depends_on, s)

\* Dependency lists that are not a DAG over the submitted steps: a reference to a
\* name that is no step (test_missing_dependency), or a cycle
\* (test_circular_dependency_detection).
InvalidDependencyLists(names) ==
    {d \in [names -> SUBSET (names \cup {nonexistent})] :
        ~Resolves(d, names) \/ Cyclic(d, names)}

\* The step lists submitted.  max_retries is at least 1 (the step contract) and
\* the steps of a list share it, as those of the tests do.
StepLists(names) ==
    {[s \in names |-> [depends_on |-> d[s], max_retries |-> m, fails_first |-> 0,
                       condition |-> ConditionOf(k[s], s, d[s])]] :
        d \in DependencyLists(names) \cup InvalidDependencyLists(names),
        m \in 1..MaxRetries, k \in [names -> CondKinds]}

\* No call made yet.
NoCall == [api |-> "none", list |-> {}, steps |-> {}, entered |-> FALSE, loaded |-> None,
           events_before |-> 0, saves_before |-> 0]

Init ==
    /\ step_map \in StepLists(1..NumSteps)
    /\ max_parallel_steps \in 1..MaxParallel
    /\ pc = "idle"
    /\ pending_steps = {}
    /\ completed_steps = {}
    /\ failed_steps = {}
    /\ wave = {}
    /\ wave_no = 0
    /\ context = [s \in Steps |-> None]
    /\ task = [s \in Steps |-> IdleTask]
    /\ state = [workflow_id |-> WorkflowId, status |-> "PENDING", step_results |-> <<>>,
                start_time |-> 0, end_time |-> None, metadata |-> NoException]
    /\ store_states = <<>>
    /\ progress_events = <<>>
    /\ executions = [s \in Steps |-> <<>>]
    /\ now = 1
    /\ faults = 0
    /\ raised = NoException
    /\ call = NoCall
    /\ save_count = 0
    /\ resumes = 0
    /\ store_calls = <<>>
    /\ function_call = NoFunctionCall

(* --------------------------- helpers ----------------------------------- *)
Min(a, b) == IF a <= b THEN a ELSE b

\* _build_dependency_graph: step name -> set of dependency names.
dependency_graph == [s \in Steps |-> step_map[s].depends_on]

\* Mutant: the dependency test is dropped, every pending step is executable.
get_executable_steps_NoDependencyTest(pending, completed, graph) == pending

\* _get_executable_steps: the pending steps whose dependencies are all in completed.
get_executable_steps(pending, completed, graph) ==
    {step_name \in pending : graph[step_name] \subseteq completed}

\* Mutant: a wave takes at least one step.
Slices_AtLeastOne(executable, n) ==
    {w \in SUBSET executable :
        Cardinality(w) = Min(IF n < 1 THEN 1 ELSE n, Cardinality(executable))}

\* Mutant: the slice is dropped, every executable step is dispatched.
Slices_NoLimit(executable, n) == {executable}

\* executable[: max_parallel_steps]: pending_steps is a set, so the order of
\* executable is the set's iteration order; any slice of that length can result.
Slices(executable, n) ==
    {w \in SUBSET executable : Cardinality(w) = Min(n, Cardinality(executable))}

\* The step_outputs of the context built for a dispatched step.
StepOutputs(completed, step_results) ==
    [name \in {n \in completed : n \in DOMAIN step_results} |-> step_results[name].output]

SkippedResult ==
    StepResult("SKIPPED", None, NoError, 0, DefaultAttempts, None, None)

\* The result the scheduling loop records for a task that raised.
ExceptionResult(error) ==
    StepResult("FAILED", None, error, 0, DefaultAttempts, None, None)

ProgressEvent(event_type, step_name, step_status) ==
    [workflow_id |-> WorkflowId, event_type |-> event_type, step_name |-> step_name,
     step_status |-> step_status]

\* Mutant: nothing is appended to the log.
emit_Dropped(events, event_type, step_name, step_status) == events

\* _emit_progress_event
emit(events, event_type, step_name, step_status) ==
    IF ~enable_progress_events THEN events
    ELSE Append(events, ProgressEvent(event_type, step_name, step_status))

\* dict assignment d[k] = v
Put(d, k, v) == (k :> v) @@ d

\* Mutant: gather does not wait for its tasks.
Settled_Always(s) == TRUE

\* The task of step s has returned or raised, as gather awaits of each task.
Settled(s) == task[s].pc \in {"returned", "raised"}

(* ------------------------------- store --------------------------------- *)
\* Mutant: a state already stored under the id is kept.
save_state_KeepFirst(states, st) ==
    IF st.workflow_id \in DOMAIN states THEN states ELSE (st.workflow_id :> st) @@ states

\* Mutant: the state is not written to the store.
save_state_Dropped(states, st) == states

\* InMemoryStateStore.save_state
save_state(states, st) == Put(states, st.workflow_id, st)

\* InMemoryStateStore.load_state
load_state(states, workflow_id) ==
    IF workflow_id \in DOMAIN states THEN Some(states[workflow_id]) ELSE None

\* Mutant: nothing is removed.
delete_state_Kept(states, workflow_id) == states

\* InMemoryStateStore.delete_state: pop(workflow_id, None) never raises.
delete_state(states, workflow_id) ==
    [id \in DOMAIN states \ {workflow_id} |-> states[id]]

\* InMemoryStateStore.list_workflows: the keys, each once.
list_workflows(states) == DOMAIN states

\* InMemoryStateStore.clear
clear(states) == <<>>

\* Mutant: the finally block does not assign end_time.
Fail_EndTimeUnset(st, e) ==
    LET final == [st EXCEPT !.status = "FAILED", !.metadata = e]
    IN  /\ state' = final
        /\ store_states' = save_state(store_states, final)
        /\ save_count' = save_count + 1
        /\ raised' = e
        /\ pc' = "done"

\* Mutant: the except block does not record the error in metadata.
Fail_ErrorUnrecorded(st, e) ==
    LET final == [st EXCEPT !.status = "FAILED", !.end_time = Some(now)]
    IN  /\ state' = final
        /\ store_states' = save_state(store_states, final)
        /\ save_count' = save_count + 1
        /\ raised' = e
        /\ pc' = "done"

\* except / finally of execute_workflow, working on the state st, for an exception
\* e raised in the try block, then InMemoryStateStore.save_state.
Fail(st, e) ==
    LET final == [st EXCEPT !.status = "FAILED", !.metadata = e, !.end_time = Some(now)]
    IN  /\ state' = final
        /\ store_states' = save_state(store_states, final)
        /\ save_count' = save_count + 1
        /\ raised' = e
        /\ pc' = "done"

FailWith(e) == Fail(state, e)

(* ------------------------------- calls --------------------------------- *)
\* The record of a call that starts now.
Call(api, list, steps, entered, loaded) ==
    [api |-> api, list |-> list, steps |-> steps, entered |-> entered, loaded |-> loaded,
     events_before |-> Len(progress_events), saves_before |-> save_count]

\* Lines 62-75: execute_workflow starts on the steps named; its WorkflowState and
\* its sets are new, and so are the tasks, the contexts and the invocations counted.
Begin(names) ==
    LET fresh == [workflow_id |-> WorkflowId, status |-> "RUNNING", step_results |-> <<>>,
                  start_time |-> now, end_time |-> None, metadata |-> NoException]
        e == build_dependency_graph(names, dependency_graph)
    IN  /\ pending_steps' = IF e = NoException THEN names ELSE {}
        /\ completed_steps' = {}
        /\ failed_steps' = {}
        /\ wave' = {}
        /\ wave_no' = 0
        /\ context' = [s \in Steps |-> None]
        /\ task' = [s \in Steps |-> IdleTask]
        /\ executions' = [s \in Steps |-> <<>>]
        /\ IF e = NoException
           THEN /\ state' = fresh
                /\ raised' = NoException
                /\ pc' = "loop"
                /\ UNCHANGED <<store_states, save_count>>
           ELSE Fail(fresh, e)

\* The caller submits the step list to execute_workflow.
ExecuteWorkflow ==
    /\ pc = "idle"
    /\ call' = Call("execute_workflow", Steps, Steps, TRUE, None)
    /\ Begin(Steps)
    /\ UNCHANGED <<step_map, max_parallel_steps, store_calls, function_call, progress_events, now, faults, resumes>>

\* Mutant: the absence of a stored state is not reported.
WorkflowNotFound_Silent == NoException

\* Lines 361-362 and 364-365: the errors resume_workflow raises.
WorkflowNotFound == [kind |-> "NotFound", names |-> {}]

WorkflowAlreadyCompleted == [kind |-> "AlreadyCompleted", names |-> {}]

\* Mutant: a COMPLETED workflow is resumed like any other.
AlreadyCompleted_Never(loaded) == FALSE

\* Line 364
AlreadyCompleted(loaded) == loaded.status = "COMPLETED"

\* Mutant: the status of the loaded state is left as it was.
CompletedState_Unmarked(loaded) == loaded

\* Line 371: the loaded state with its status set; nothing else is assigned.
CompletedState(loaded) == [loaded EXCEPT !.status = "COMPLETED"]

\* Mutant: no step is filtered out.
remaining_steps_NoFilter(steps, loaded) == steps

\* Mutant: every step that has a result is filtered out.
remaining_steps_Unrecorded(steps, loaded) == steps \ DOMAIN loaded.step_results

\* Lines 367-368: the steps of the list that are not COMPLETED in the loaded state.
remaining_steps(steps, loaded) ==
    steps \ {name \in DOMAIN loaded.step_results :
                 loaded.step_results[name].status = "COMPLETED"}

\* resume_workflow(workflow_id, steps), the caller passing some of the original steps.
ResumeWorkflow(steps) ==
    /\ pc \in {"idle", "done"}
    /\ resumes < MaxResumes
    /\ resumes' = resumes + 1
    /\ LET loaded == load_state(store_states, WorkflowId)
           returns(st, e) ==
               /\ state' = st
               /\ raised' = e
               /\ pc' = "done"
               /\ UNCHANGED <<pending_steps, completed_steps, failed_steps, wave, wave_no,
                              context, task, executions>>
       IN  IF loaded = None
           THEN /\ call' = Call("resume_workflow", steps, {}, FALSE, loaded)
                /\ returns(state, WorkflowNotFound)
                /\ UNCHANGED <<store_states, save_count>>
           ELSE IF AlreadyCompleted(loaded[1])
           THEN /\ call' = Call("resume_workflow", steps, {}, FALSE, loaded)
                /\ returns(loaded[1], WorkflowAlreadyCompleted)
                /\ UNCHANGED <<store_states, save_count>>
           ELSE IF remaining_steps(steps, loaded[1]) = {}
           THEN LET final == CompletedState(loaded[1])
                IN  /\ call' = Call("resume_workflow", steps, {}, FALSE, loaded)
                    /\ returns(final, NoException)
                    /\ store_states' = save_state(store_states, final)
                    /\ save_count' = save_count + 1
           ELSE /\ call' = Call("resume_workflow", steps,
                                remaining_steps(steps, loaded[1]), TRUE, loaded)
                /\ Begin(remaining_steps(steps, loaded[1]))
    /\ UNCHANGED <<step_map, max_parallel_steps, store_calls, function_call, progress_events, now, faults>>

(* --------------------------- scheduling loop --------------------------- *)
\* Lines 77-101: one iteration that finds executable steps, builds their contexts
\* and creates their tasks.
Dispatch ==
    /\ pc = "loop"
    /\ pending_steps # {}
    /\ wave_no < MaxWaves
    /\ LET executable == get_executable_steps(pending_steps, completed_steps, dependency_graph)
       IN  /\ executable # {}
           /\ \E selected \in Slices(executable, max_parallel_steps) :
                 /\ wave' = selected
                 /\ context' = [s \in Steps |->
                        IF s \in selected
                        THEN Some(StepOutputs(completed_steps, state.step_results))
                        ELSE context[s]]
                 /\ task' = [s \in Steps |->
                        IF s \in selected
                        THEN [IdleTask EXCEPT !.pc = "created", !.wave = wave_no + 1]
                        ELSE task[s]]
    /\ wave_no' = wave_no + 1
    /\ pc' = "gather"
    /\ UNCHANGED <<step_map, max_parallel_steps, store_calls, function_call, pending_steps, completed_steps, failed_steps,
                   state, store_states, progress_events, executions, now, faults, raised,
                   call, save_count, resumes>>

\* Mutant: the error does not list the remaining steps.
UnmetDependencies_Unnamed ==
    /\ pc = "loop"
    /\ pending_steps # {}
    /\ get_executable_steps(pending_steps, completed_steps, dependency_graph) = {}
    /\ FailWith([kind |-> "UnmetDependencies", names |-> {}])
    /\ UNCHANGED <<step_map, max_parallel_steps, store_calls, function_call, pending_steps, completed_steps, failed_steps,
                   wave, wave_no, context, task, progress_events, executions, now, faults,
                   call, resumes>>

\* Lines 82-87: nothing is executable while steps are pending.
UnmetDependencies ==
    /\ pc = "loop"
    /\ pending_steps # {}
    /\ get_executable_steps(pending_steps, completed_steps, dependency_graph) = {}
    /\ FailWith([kind |-> "UnmetDependencies", names |-> pending_steps])
    /\ UNCHANGED <<step_map, max_parallel_steps, store_calls, function_call, pending_steps, completed_steps, failed_steps,
                   wave, wave_no, context, task, progress_events, executions, now, faults,
                   call, resumes>>

\* Lines 119-134: the loop has ended with pending_steps empty.
Finish ==
    /\ pc = "loop"
    /\ pending_steps = {}
    /\ IF failed_steps # {}
       THEN FailWith([kind |-> "WorkflowFailed", names |-> failed_steps])
       ELSE LET final == [state EXCEPT !.status = "COMPLETED", !.end_time = Some(now)]
            IN  /\ state' = final
                /\ store_states' = save_state(store_states, final)
                /\ save_count' = save_count + 1
                /\ raised' = NoException
                /\ pc' = "done"
    /\ UNCHANGED <<step_map, max_parallel_steps, store_calls, function_call, pending_steps, completed_steps, failed_steps,
                   wave, wave_no, context, task, progress_events, executions, now, faults,
                   call, resumes>>

\* Mutant: only the tasks whose StepResult is COMPLETED are added to completed.
CompletedAfter_CompletedOnly(completed, settled, excs) ==
    completed \cup {s \in settled \ excs :
                        /\ s \in DOMAIN state.step_results
                        /\ state.step_results[s].status = "COMPLETED"}

\* Lines 116-117: a task that returned, whatever its StepResult, is completed.
CompletedAfter(completed, settled, excs) == completed \cup (settled \ excs)

\* Mutant: the steps of the wave stay pending.
PendingAfter_Kept(pending, settled) == pending

\* Line 106: pending_steps.remove(step_name) for every step of the wave.
PendingAfter(pending, settled) == pending \ settled

\* Lines 103-117: gather has returned; the results are folded into the sets.
CollectResults ==
    /\ pc = "gather"
    /\ \A s \in wave : Settled(s)
    /\ LET excs == {s \in wave : task[s].pc = "raised"}
       IN  /\ pending_steps' = PendingAfter(pending_steps, wave)
           /\ failed_steps' = failed_steps \cup excs
           /\ completed_steps' = CompletedAfter(completed_steps, wave, excs)
           /\ state' = [state EXCEPT !.step_results =
                   [s \in DOMAIN state.step_results \cup excs |->
                       IF s \in excs THEN ExceptionResult(task[s].error)
                       ELSE state.step_results[s]]]
    /\ pc' = "loop"
    /\ UNCHANGED <<step_map, max_parallel_steps, store_calls, function_call, wave, wave_no, context, task, store_states,
                   progress_events, executions, now, faults, raised, call, save_count,
                   resumes>>

(* ------------------------------ tasks ---------------------------------- *)
\* What one invocation of a step's execute can do.  Like every step of the
\* repository it first calls validate_dependencies and reads its dependencies with
\* get_dependency_output; its body then returns a text, raises, or outlives the timeout.
Outcome(kind, output, error) == [kind |-> kind, output |-> output, error |-> error]

BodyOutcomes ==
    {Outcome("ok", Some(o), NoError) : o \in Outputs}
    \cup {Outcome("error", None, e) : e \in ExecErrors}
    \cup {Outcome("timeout", None, ErrTimeout)}

\* At most MaxFaults attempts of a run fail in the body of execute.
ExecuteOutcomes(s, step_outputs) ==
    IF validate_dependencies_raises(step_map[s].depends_on, step_outputs)
    THEN {Outcome("error", None, ErrNotAvailable)}
    ELSE IF \E dep \in step_map[s].depends_on : get_dependency_output(step_outputs, dep).raised
    THEN {Outcome("error", None, ErrNotFound)}
    ELSE IF Len(executions[s]) < step_map[s].fails_first
    THEN {Outcome("error", None, ErrTemporary)}
    ELSE {o \in BodyOutcomes : o.kind = "ok" \/ faults < MaxFaults}

\* Mutant: a task reads the outputs recorded by now, those of the steps of its
\* own wave that have returned included.
step_outputs_of_Live(s) ==
    StepOutputs(completed_steps \cup {r \in wave : task[r].pc = "returned"},
                state.step_results)

\* context["step_outputs"] as the task of step s reads it: the dict built for it
\* at lines 92-99, before the tasks of its wave were created.
step_outputs_of(s) == context[s][1]

\* _exponential_backoff, in milliseconds.
base_delay == 100
max_delay == 5000

\* Mutant: the delay is not capped.
delay_Uncapped(attempt) == base_delay * 2^attempt

\* delay = min(base_delay * (2**attempt), max_delay)
delay(attempt) == Min(base_delay * 2^attempt, max_delay)

\* Values of random.random(), in quarters: it returns a number in [0, 1).
RandomQuarters == {0, 3}

\* The sleeps _exponential_backoff(attempt) may take: delay + jitter with
\* jitter = delay * 0.25 * (2 * random.random() - 1).
exponential_backoff(attempt) ==
    {delay(attempt) + (delay(attempt) * (2 * q - 4)) \div 16 : q \in RandomQuarters}

\* Test double's execution_count: the number of times execute was invoked.
execution_count(s) == Len(executions[s])

\* Mutant: every failed attempt is retried while attempts remain.
ShouldRetry_EveryError(outcome, attempts, max_retries) ==
    attempts < max_retries

\* Mutant: a timeout is retried only if the classifier accepts its error.
ShouldRetry_ClassifierOnly(outcome, attempts, max_retries) ==
    is_retryable_error(outcome.error) /\ attempts < max_retries

\* Mutant: only a timeout is retried.
ShouldRetry_TimeoutOnly(outcome, attempts, max_retries) ==
    outcome.kind = "timeout" /\ attempts < max_retries

\* Lines 195-209: whether a failed attempt is followed by a backoff and another attempt.
ShouldRetry(outcome, attempts, max_retries) ==
    IF outcome.kind = "timeout"
    THEN attempts < max_retries
    ELSE is_retryable_error(outcome.error) /\ attempts < max_retries

\* Lines 195-205: last_error after a failed attempt of step s.
last_error_of(s, outcome) ==
    IF outcome.kind = "timeout" THEN timed_out(s) ELSE outcome.error

\* Lines 186-193 and 213-221: the results _execute_step returns.
CompletedResult(output, attempts, start_time, end_time) ==
    StepResult("COMPLETED", output, NoError, end_time - start_time, attempts,
               Some(start_time), Some(end_time))

\* Mutant: attempts is not passed, the StepResult keeps the default.
FailedResult_DefaultAttempts(last_error, attempts, start_time, end_time) ==
    StepResult("FAILED", None, last_error, end_time - start_time, DefaultAttempts,
               Some(start_time), Some(end_time))

FailedResult(last_error, attempts, start_time, end_time) ==
    StepResult("FAILED", None, last_error, end_time - start_time, attempts,
               Some(start_time), Some(end_time))

\* Lines 158-161: _execute_step has returned result to _execute_step_with_tracking,
\* which records it, emits step_complete and returns.
Settle(s, result) ==
    /\ state' = [state EXCEPT !.step_results = Put(state.step_results, s, result)]
    /\ progress_events' = emit(progress_events, "step_complete", s, result.status)
    /\ task' = [task EXCEPT ![s] = [IdleTask EXCEPT !.pc = "returned", !.wave = task[s].wave,
                                                     !.backoffs = task[s].backoffs]]

\* Lines 147-156 and 174-176: the task of step s starts.
TaskStart(s) ==
    /\ pc = "gather"
    /\ s \in wave
    /\ task[s].pc = "created"
    /\ LET met == is_condition_met(step_map[s].condition, step_outputs_of(s))
       IN  CASE met = "false" ->
                  /\ state' = [state EXCEPT !.step_results =
                                   Put(state.step_results, s, SkippedResult)]
                  /\ progress_events' = emit(progress_events, "step_complete", s, "SKIPPED")
                  /\ task' = [task EXCEPT ![s].pc = "returned"]
                  /\ UNCHANGED now
             [] met = "raise" ->
                  /\ task' = [task EXCEPT ![s].pc = "raised", ![s].error = ErrCondition]
                  /\ UNCHANGED <<state, progress_events, now>>
             [] OTHER ->
                  /\ progress_events' = emit(progress_events, "step_start", s, "RUNNING")
                  /\ task' = [task EXCEPT ![s].pc = "attempt", ![s].start_time = now]
                  /\ now' = now + 1
                  /\ UNCHANGED state
    /\ UNCHANGED <<step_map, max_parallel_steps, store_calls, function_call, pc, pending_steps, completed_steps,
                   failed_steps, wave, wave_no, context, store_states, executions,
                   faults, raised, call, save_count, resumes>>

\* Lines 178-221: one pass of the attempt loop of _execute_step.
Attempt(s) ==
    /\ pc = "gather"
    /\ s \in wave
    /\ task[s].pc = "attempt"
    /\ now' = now + 1
    /\ IF ~(task[s].attempts < step_map[s].max_retries)
       THEN /\ Settle(s, FailedResult(task[s].last_error, task[s].attempts,
                                      task[s].start_time, now))
            /\ UNCHANGED <<executions, faults>>
       ELSE \E outcome \in ExecuteOutcomes(s, step_outputs_of(s)) :
                 LET attempts == task[s].attempts + 1
                     start_time == task[s].start_time
                 IN  /\ executions' = [executions EXCEPT ![s] = Append(@, outcome)]
                     /\ IF outcome.kind = "ok"
                        THEN /\ Settle(s, CompletedResult(outcome.output, attempts, start_time, now))
                             /\ UNCHANGED faults
                        ELSE /\ faults' = faults + 1
                             /\ IF ShouldRetry(outcome, attempts, step_map[s].max_retries)
                                THEN /\ \E sleep \in exponential_backoff(attempts) :
                                          task' = [task EXCEPT ![s].pc = "backoff",
                                                               ![s].attempts = attempts,
                                                               ![s].last_error = last_error_of(s, outcome),
                                                               ![s].sleep = sleep,
                                                               ![s].backoffs = @ + 1]
                                     /\ UNCHANGED <<state, progress_events>>
                                ELSE Settle(s, FailedResult(last_error_of(s, outcome), attempts,
                                                            start_time, now))
    /\ UNCHANGED <<step_map, max_parallel_steps, store_calls, function_call, pc, pending_steps, completed_steps,
                   failed_steps, wave, wave_no, context, store_states, raised,
                   call, save_count, resumes>>

\* Lines 223-232: asyncio.sleep returns and the attempt loop continues.
Backoff(s) ==
    /\ pc = "gather"
    /\ s \in wave
    /\ task[s].pc = "backoff"
    /\ task' = [task EXCEPT ![s].pc = "attempt", ![s].sleep = 0]
    /\ UNCHANGED <<step_map, max_parallel_steps, store_calls, function_call, pc, pending_steps, completed_steps,
                   failed_steps, wave, wave_no, context, state, store_states, progress_events,
                   executions, now, faults, raised, call, save_count, resumes>>

Next ==
    \/ ExecuteWorkflow
    \/ \E steps \in SUBSET Steps : ResumeWorkflow(steps)
    \/ Dispatch
    \/ UnmetDependencies
    \/ Finish
    \/ CollectResults
    \/ \E s \in Steps : TaskStart(s)
    \/ \E s \in Steps : Attempt(s)
    \/ \E s \in Steps : Backoff(s)

Spec == Init /\ [][Next]_vars

(* ------------------------- one run of three steps ----------------------- *)
\* execute_workflow is called once on a valid list of WaveSteps steps, so that a
\* wave of several steps can follow another and leave a ready step waiting.
WaveInit ==
    /\ step_map \in {l \in StepLists(1..WaveSteps) :
                        Resolves([s \in DOMAIN l |-> l[s].depends_on], DOMAIN l)
                        /\ ~Cyclic([s \in DOMAIN l |-> l[s].depends_on], DOMAIN l)}
    /\ max_parallel_steps \in 1..MaxParallel
    /\ pc = "idle"
    /\ pending_steps = {}
    /\ completed_steps = {}
    /\ failed_steps = {}
    /\ wave = {}
    /\ wave_no = 0
    /\ context = [s \in Steps |-> None]
    /\ task = [s \in Steps |-> IdleTask]
    /\ state = [workflow_id |-> WorkflowId, status |-> "PENDING", step_results |-> <<>>,
                start_time |-> 0, end_time |-> None, metadata |-> NoException]
    /\ store_states = <<>>
    /\ progress_events = <<>>
    /\ executions = [s \in Steps |-> <<>>]
    /\ now = 1
    /\ faults = 0
    /\ raised = NoException
    /\ call = NoCall
    /\ save_count = 0
    /\ resumes = 0
    /\ store_calls = <<>>
    /\ function_call = NoFunctionCall

WaveNext ==
    \/ ExecuteWorkflow
    \/ Dispatch
    \/ UnmetDependencies
    \/ Finish
    \/ CollectResults
    \/ \E s \in Steps : TaskStart(s)
    \/ \E s \in Steps : Attempt(s)
    \/ \E s \in Steps : Backoff(s)

WaveSpec == WaveInit /\ [][WaveNext]_vars

\* The same run under the scheduling of the event loop: the coroutine of
\* execute_workflow and every task of a wave are resumed whenever they can go on,
\* and every awaited execute and backoff sleep ends.
Resume ==
    \/ Dispatch
    \/ UnmetDependencies
    \/ Finish
    \/ CollectResults
    \/ \E s \in Steps : TaskStart(s)
    \/ \E s \in Steps : Attempt(s)
    \/ \E s \in Steps : Backoff(s)

LiveSpec == WaveInit /\ [][WaveNext]_vars /\ WF_vars(Resume)

(* ------------------------- an executor that may run no step ------------ *)
\* WorkflowExecutor(state_store, max_parallel_steps=0): the constructor stores the
\* number as it is given.  execute_workflow is called once on a valid list.
ZeroInit ==
    /\ step_map \in {l \in StepLists(1..NumSteps) :
                        Resolves([s \in DOMAIN l |-> l[s].depends_on], DOMAIN l)
                        /\ ~Cyclic([s \in DOMAIN l |-> l[s].depends_on], DOMAIN l)}
    /\ max_parallel_steps = 0
    /\ pc = "idle"
    /\ pending_steps = {}
    /\ completed_steps = {}
    /\ failed_steps = {}
    /\ wave = {}
    /\ wave_no = 0
    /\ context = [s \in Steps |-> None]
    /\ task = [s \in Steps |-> IdleTask]
    /\ state = [workflow_id |-> WorkflowId, status |-> "PENDING", step_results |-> <<>>,
                start_time |-> 0, end_time |-> None, metadata |-> NoException]
    /\ store_states = <<>>
    /\ progress_events = <<>>
    /\ executions = [s \in Steps |-> <<>>]
    /\ now = 1
    /\ faults = 0
    /\ raised = NoException
    /\ call = NoCall
    /\ save_count = 0
    /\ resumes = 0
    /\ store_calls = <<>>
    /\ function_call = NoFunctionCall

\* With no task in a wave the other steps of the loop and of the tasks never apply.
ZeroNext ==
    \/ ExecuteWorkflow
    \/ Dispatch
    \/ CollectResults

ZeroSpec == ZeroInit /\ [][ZeroNext]_vars

(* ------------------------- validation of larger graphs ------------------ *)
\* execute_workflow is called on a list of GraphSteps steps whose references all
\* resolve, with any dependency graph over them, cyclic or not; only the
\* validation of the call is followed.
ValidationInit ==
    /\ step_map \in {[s \in 1..GraphSteps |->
                         [depends_on |-> d[s], max_retries |-> 1, fails_first |-> 0,
                          condition |-> CondNone]] :
                     d \in [1..GraphSteps -> SUBSET (1..GraphSteps)]}
    /\ max_parallel_steps = 1
    /\ pc = "idle"
    /\ pending_steps = {}
    /\ completed_steps = {}
    /\ failed_steps = {}
    /\ wave = {}
    /\ wave_no = 0
    /\ context = [s \in Steps |-> None]
    /\ task = [s \in Steps |-> IdleTask]
    /\ state = [workflow_id |-> WorkflowId, status |-> "PENDING", step_results |-> <<>>,
                start_time |-> 0, end_time |-> None, metadata |-> NoException]
    /\ store_states = <<>>
    /\ progress_events = <<>>
    /\ executions = [s \in Steps |-> <<>>]
    /\ now = 1
    /\ faults = 0
    /\ raised = NoException
    /\ call = NoCall
    /\ save_count = 0
    /\ resumes = 0
    /\ store_calls = <<>>
    /\ function_call = NoFunctionCall

ValidationNext == ExecuteWorkflow

ValidationSpec == ValidationInit /\ [][ValidationNext]_vars

(* ------------------------- one step that is retried -------------------- *)
\* execute_workflow is called on one step that, like RetryableStep of
\* test_retry_logic, raises "Temporary failure" on its first invocations, with up
\* to MaxBackoffRetries attempts.
BackoffInit ==
    /\ step_map \in {[s \in {1} |->
                         [depends_on |-> {}, max_retries |-> m, fails_first |-> f,
                          condition |-> CondNone]] :
                     m \in 1..MaxBackoffRetries, f \in 0..MaxBackoffRetries}
    /\ max_parallel_steps = 1
    /\ pc = "idle"
    /\ pending_steps = {}
    /\ completed_steps = {}
    /\ failed_steps = {}
    /\ wave = {}
    /\ wave_no = 0
    /\ context = [s \in Steps |-> None]
    /\ task = [s \in Steps |-> IdleTask]
    /\ state = [workflow_id |-> WorkflowId, status |-> "PENDING", step_results |-> <<>>,
                start_time |-> 0, end_time |-> None, metadata |-> NoException]
    /\ store_states = <<>>
    /\ progress_events = <<>>
    /\ executions = [s \in Steps |-> <<>>]
    /\ now = 1
    /\ faults = 0
    /\ raised = NoException
    /\ call = NoCall
    /\ save_count = 0
    /\ resumes = 0
    /\ store_calls = <<>>
    /\ function_call = NoFunctionCall

BackoffNext ==
    \/ ExecuteWorkflow
    \/ Dispatch
    \/ Finish
    \/ CollectResults
    \/ \E s \in Steps : TaskStart(s)
    \/ \E s \in Steps : Attempt(s)
    \/ \E s \in Steps : Backoff(s)

BackoffSpec == BackoffInit /\ [][BackoffNext]_vars

(* ------------------------- the store on its own ------------------------ *)
\* A client other than the executor calls the operations of InMemoryStateStore in
\* any order, on two workflow ids; store_calls keeps each call with what it returned.
OtherWorkflowId == "other"
WorkflowIds == {WorkflowId, OtherWorkflowId}

\* The states handed to save_state.
SavedStates ==
    {[workflow_id |-> id, status |-> status, step_results |-> <<>>, start_time |-> 0,
      end_time |-> Some(1), metadata |-> NoException] :
        id \in WorkflowIds, status \in {"COMPLETED", "FAILED"}}

StoreCall(op, workflow_id, saved, result) ==
    [op |-> op, workflow_id |-> workflow_id, saved |-> saved, result |-> result]

executor_vars == <<function_call, step_map, max_parallel_steps, pc, pending_steps, completed_steps,
                   failed_steps, wave, wave_no, context, task, state, progress_events,
                   executions, now, faults, raised, call, save_count, resumes>>

\* InMemoryStateStore.__init__: no state is stored; no executor runs.
StoreInit ==
    /\ step_map = <<>>
    /\ max_parallel_steps = 1
    /\ pc = "idle"
    /\ pending_steps = {}
    /\ completed_steps = {}
    /\ failed_steps = {}
    /\ wave = {}
    /\ wave_no = 0
    /\ context = <<>>
    /\ task = <<>>
    /\ state = [workflow_id |-> WorkflowId, status |-> "PENDING", step_results |-> <<>>,
                start_time |-> 0, end_time |-> None, metadata |-> NoException]
    /\ store_states = <<>>
    /\ progress_events = <<>>
    /\ executions = <<>>
    /\ now = 1
    /\ faults = 0
    /\ raised = NoException
    /\ call = NoCall
    /\ save_count = 0
    /\ resumes = 0
    /\ store_calls = <<>>
    /\ function_call = NoFunctionCall

SaveState(st) ==
    /\ Len(store_calls) < MaxStoreCalls
    /\ store_states' = save_state(store_states, st)
    /\ store_calls' = Append(store_calls, StoreCall("save_state", st.workflow_id, Some(st), None))
    /\ UNCHANGED executor_vars

LoadState(workflow_id) ==
    /\ Len(store_calls) < MaxStoreCalls
    /\ store_calls' = Append(store_calls,
           StoreCall("load_state", workflow_id, None, load_state(store_states, workflow_id)))
    /\ UNCHANGED <<store_states, executor_vars>>

DeleteState(workflow_id) ==
    /\ Len(store_calls) < MaxStoreCalls
    /\ store_states' = delete_state(store_states, workflow_id)
    /\ store_calls' = Append(store_calls, StoreCall("delete_state", workflow_id, None, None))
    /\ UNCHANGED executor_vars

ListWorkflows ==
    /\ Len(store_calls) < MaxStoreCalls
    /\ store_calls' = Append(store_calls,
           StoreCall("list_workflows", WorkflowId, None, list_workflows(store_states)))
    /\ UNCHANGED <<store_states, executor_vars>>

Clear ==
    /\ Len(store_calls) < MaxStoreCalls
    /\ store_states' = clear(store_states)
    /\ store_calls' = Append(store_calls, StoreCall("clear", WorkflowId, None, None))
    /\ UNCHANGED executor_vars

StoreNext ==
    \/ \E st \in SavedStates : SaveState(st)
    \/ \E workflow_id \in WorkflowIds : LoadState(workflow_id)
    \/ \E workflow_id \in WorkflowIds : DeleteState(workflow_id)
    \/ ListWorkflows
    \/ Clear

StoreSpec == StoreInit /\ [][StoreNext]_vars

(* ------------------- the functions of step__base.py on their own ------- *)
\* Error messages: up to MaxFragments fragments put together, so that patterns of
\* both lists occur in them, alone, together, in upper case and across fragments.
MaxFragments == 3

MessageFragments ==
    {"Rate", " limit", "time", "out", "40", "50", "4", "3", "Not", " found",
     "Temporary", "INVALID", "x"}

RECURSIVE Messages(_)
Messages(n) ==
    IF n = 0 THEN {""}
    ELSE LET shorter == Messages(n - 1)
         IN  shorter \cup {m \o f : m \in shorter, f \in MessageFragments}

\* Outputs of the step a condition reads: None, the empty text, whitespace only,
\* and one to three words with whitespace around and between them.
ConditionOutputs ==
    {None, Some(<<>>), Some(<<" ">>), Some(ShortText),
     Some(<<" ", "x", " ", " ", "x", "\n">>), Some(<<"x", "\t", "x", " ", "x">>)}

\* min_words of the condition, zero and a negative number included.
MaxMinWords == 3
MinWordsChoices == -1..MaxMinWords

\* step_outputs dicts over the names 1 and 2.
StepOutputsChoices ==
    UNION {[names -> ConditionOutputs] : names \in SUBSET {1, 2}}

workflow_vars == <<step_map, max_parallel_steps, pc, pending_steps, completed_steps,
                   failed_steps, wave, wave_no, context, task, state, store_states,
                   progress_events, executions, now, faults, raised, call, save_count,
                   resumes, store_calls>>

\* A caller holds the arguments of one call; no executor runs.
FunctionInit ==
    /\ step_map = <<>>
    /\ max_parallel_steps = 1
    /\ pc = "idle"
    /\ pending_steps = {}
    /\ completed_steps = {}
    /\ failed_steps = {}
    /\ wave = {}
    /\ wave_no = 0
    /\ context = <<>>
    /\ task = <<>>
    /\ state = [workflow_id |-> WorkflowId, status |-> "PENDING", step_results |-> <<>>,
                start_time |-> 0, end_time |-> None, metadata |-> NoException]
    /\ store_states = <<>>
    /\ progress_events = <<>>
    /\ executions = <<>>
    /\ now = 1
    /\ faults = 0
    /\ raised = NoException
    /\ call = NoCall
    /\ save_count = 0
    /\ resumes = 0
    /\ store_calls = <<>>
    /\ \/ \E error \in Messages(MaxFragments) :
              function_call = [function |-> "is_retryable_error",
                               arguments |-> <<error>>, result |-> None]
       \/ \E min_words \in MinWordsChoices, step_outputs \in StepOutputsChoices :
              function_call = [function |-> "condition_min_output_words",
                               arguments |-> <<1, min_words, step_outputs>>,
                               result |-> None]

\* Step.is_retryable_error(error) is called and returns.
IsRetryableError ==
    /\ function_call.function = "is_retryable_error"
    /\ function_call.result = None
    /\ function_call' =
           [function_call EXCEPT
               !.result = Some(is_retryable_error(function_call.arguments[1]))]
    /\ UNCHANGED workflow_vars

\* condition_min_output_words(step_name, min_words) is applied to a context.
ConditionMinOutputWords ==
    /\ function_call.function = "condition_min_output_words"
    /\ function_call.result = None
    /\ function_call' =
           [function_call EXCEPT
               !.result = Some(condition_min_output_words(function_call.arguments[1],
                                                          function_call.arguments[2],
                                                          function_call.arguments[3]))]
    /\ UNCHANGED workflow_vars

FunctionNext ==
    \/ IsRetryableError
    \/ ConditionMinOutputWords

FunctionSpec == FunctionInit /\ [][FunctionNext]_vars

(* ------------------------- vocabulary of the properties ---------------- *)
\* A call has returned or raised; Done when it ran execute_workflow.
Returned == pc = "done"
Done == Returned /\ call.entered

\* The list submitted is a DAG whose references resolve, and so is the list the
\* latest call handed to execute_workflow.
ValidList == build_dependency_graph(Steps, dependency_graph) = NoException
ValidDag == call.entered /\ build_dependency_graph(call.steps, dependency_graph) = NoException
Recorded(s) == s \in DOMAIN state.step_results
Result(s) == state.step_results[s]
HasStatus(s, status) == Recorded(s) /\ Result(s).status = status
Dispatched(s) == task[s].pc # "idle"
InFlight == {s \in Steps : task[s].pc \in {"created", "attempt", "backoff"}}
Persisted == store_states[WorkflowId]

\* The steps s depends on, directly or transitively.
RECURSIVE Ancestors(_)
Ancestors(s) ==
    step_map[s].depends_on \cup UNION {Ancestors(d) : d \in step_map[s].depends_on}

\* Position of the first event of that type for that step in the log, 0 if none.
EventIndex(event_type, s) ==
    LET hits == {i \in 1..Len(progress_events) :
                    /\ progress_events[i].event_type = event_type
                    /\ progress_events[i].step_name = s}
    IN  IF hits = {} THEN 0 ELSE CHOOSE i \in hits : \A j \in hits : i <= j

(* ------------------------------ claims --------------------------------- *)
\* The steps whose attempt cycle ended without success.
AttemptsFailed == {s \in Steps : HasStatus(s, "FAILED") /\ Result(s).started_at # None}

\* C1: when execute_workflow has terminated on a valid DAG, if some step settled
\* FAILED (its attempt cycle ended without success) the persisted status is
\* FAILED and the raised aggregate error names the failed steps; if no step is
\* FAILED the final status is COMPLETED.
C1_FailedStepFailsWorkflow ==
    (Done /\ ValidDag) =>
        /\ AttemptsFailed # {} =>
              /\ Persisted.status = "FAILED"
              /\ raised.kind = "WorkflowFailed"
              /\ AttemptsFailed \subseteq raised.names
        /\ (\A s \in Steps : ~HasStatus(s, "FAILED")) =>
              /\ Persisted.status = "COMPLETED"
              /\ raised = NoException

\* C2: a step that depends, directly or transitively, on a step that settled
\* FAILED is never dispatched: execute is not invoked and it has no StepResult.
C2_DependentsOfFailedNeverDispatched ==
    ValidList =>
    \A c \in Steps : \A p \in Ancestors(c) :
        HasStatus(p, "FAILED") =>
            /\ ~Dispatched(c)
            /\ execution_count(c) = 0
            /\ ~Recorded(c)

\* C3: whenever a context is built for a step, the keys of its step_outputs are
\* exactly the steps recorded COMPLETED at that moment, each mapped to its
\* recorded output (so no FAILED or SKIPPED step is a key).
C3_ContextIsExactlyCompletedOutputs ==
    [][\A s \in Steps :
          (context[s] = None /\ context'[s] # None) =>
              context'[s][1] = [n \in {m \in Steps : HasStatus(m, "COMPLETED")} |->
                                  Result(n).output]]_vars

\* C4: a step c is dispatched only after each dependency p has settled and its
\* StepResult is recorded: p was dispatched in an earlier wave, p's step_complete
\* precedes c's step_start in the log, and c starts no earlier than p completed.
C4_DependencyOrdering ==
    \A c \in Steps : \A p \in step_map[c].depends_on :
        Dispatched(c) =>
            /\ Recorded(p)
            /\ task[p].pc = "returned"
            /\ 1 <= task[p].wave
            /\ task[p].wave < task[c].wave
            /\ EventIndex("step_start", c) # 0 =>
                  /\ EventIndex("step_complete", p) # 0
                  /\ EventIndex("step_complete", p) < EventIndex("step_start", c)
            /\ (Recorded(c) /\ Result(c).started_at # None /\ Result(p).completed_at # None) =>
                  Result(p).completed_at[1] <= Result(c).started_at[1]

\* A step with a dependency that COMPLETED has had its execute invoked.
C4_Witness ==
    \E c \in Steps : \E p \in step_map[c].depends_on :
        HasStatus(p, "COMPLETED") /\ execution_count(c) >= 1

ConditionFalse(s) ==
    /\ task[s].pc \notin {"idle", "created"}
    /\ is_condition_met(step_map[s].condition, context[s][1]) = "false"

\* C5: a step whose condition returned false on its context is never executed
\* and its StepResult has status SKIPPED, no output, attempts = 0, duration = 0.
C5_SkippedResult ==
    \A s \in Steps :
        ConditionFalse(s) =>
            /\ execution_count(s) = 0
            /\ HasStatus(s, "SKIPPED")
            /\ Result(s).output = None
            /\ Result(s).attempts = 0
            /\ Result(s).duration_ms = 0

DependenciesSatisfied(s) ==
    \A d \in step_map[s].depends_on : HasStatus(d, "COMPLETED") \/ HasStatus(d, "SKIPPED")

\* C6: a SKIPPED step satisfies dependency resolution.  At the top of the loop a
\* pending step whose dependencies are all COMPLETED or SKIPPED is executable; when
\* the run of a valid DAG has ended every such step was dispatched, and executed
\* if its own condition was met; and a run whose steps all ended COMPLETED or SKIPPED is
\* COMPLETED.
C6_SkippedSatisfiesDependencies ==
    /\ pc = "loop" =>
          \A s \in pending_steps :
              DependenciesSatisfied(s) =>
                  s \in get_executable_steps(pending_steps, completed_steps, dependency_graph)
    /\ (Done /\ ValidDag) =>
          \A s \in call.steps :
              DependenciesSatisfied(s) =>
                  /\ Dispatched(s)
                  /\ is_condition_met(step_map[s].condition, context[s][1]) = "true" =>
                        execution_count(s) >= 1
    /\ (Done /\ \A s \in Steps : HasStatus(s, "COMPLETED") \/ HasStatus(s, "SKIPPED")) =>
          /\ state.status = "COMPLETED"
          /\ Persisted.status = "COMPLETED"
          /\ raised = NoException

\* A step whose dependency was SKIPPED was executed and the run COMPLETED.
C6_Witness ==
    /\ Done
    /\ state.status = "COMPLETED"
    /\ \E s \in Steps : \E d \in step_map[s].depends_on :
          /\ HasStatus(d, "SKIPPED")
          /\ HasStatus(s, "COMPLETED")
          /\ execution_count(s) >= 1

\* C7: when step c depends on b and b settled SKIPPED, get_dependency_output(b)
\* and validate_dependencies raise on c's context, so a c that was executed
\* settles FAILED.
C7_SkippedDependencyIsMissing ==
    \A c \in Steps : \A b \in step_map[c].depends_on :
        (HasStatus(b, "SKIPPED") /\ context[c] # None) =>
            /\ get_dependency_output(context[c][1], b).raised
            /\ validate_dependencies_raises(step_map[c].depends_on, context[c][1])
            /\ (Recorded(c) /\ execution_count(c) >= 1) => HasStatus(c, "FAILED")

\* C8: the number of attempt cycles in flight never exceeds max_parallel_steps.
C8_BoundedParallelism ==
    Cardinality(InFlight) <= max_parallel_steps

\* More steps are executable than max_parallel_steps and the wave is full.
C8_Witness ==
    /\ pc = "gather"
    /\ Cardinality(InFlight) = max_parallel_steps
    /\ Cardinality(get_executable_steps(pending_steps, completed_steps, dependency_graph))
          > max_parallel_steps

\* C9 as stated: every step with max_retries >= 1 recorded COMPLETED or FAILED has
\* 1 <= attempts <= max_retries and attempts equal to the invocations of execute.
C9_AttemptsOfEveryResult ==
    \A s \in Steps :
        (step_map[s].max_retries >= 1 /\ (HasStatus(s, "COMPLETED") \/ HasStatus(s, "FAILED"))) =>
            /\ 1 <= Result(s).attempts
            /\ Result(s).attempts <= step_map[s].max_retries
            /\ Result(s).attempts = execution_count(s)

\* C9 amended: the same, for the StepResults returned by _execute_step (those that
\* carry started_at); a task that raised is recorded FAILED with the default attempts.
C9_AttemptsOfExecutedSteps ==
    \A s \in Steps :
        (/\ step_map[s].max_retries >= 1
         /\ HasStatus(s, "COMPLETED") \/ HasStatus(s, "FAILED")
         /\ Result(s).started_at # None) =>
            /\ 1 <= Result(s).attempts
            /\ Result(s).attempts <= step_map[s].max_retries
            /\ Result(s).attempts = execution_count(s)

\* A step failed after using all of its several attempts.
C9_Witness ==
    \E s \in Steps :
        /\ HasStatus(s, "FAILED")
        /\ Result(s).started_at # None
        /\ Result(s).attempts >= 2
        /\ Result(s).attempts = step_map[s].max_retries

\* C10: a step whose k-th invocation of execute succeeds settles COMPLETED with
\* attempts = k, the output of that invocation and no error; a step does not
\* settle FAILED on a retryable error while attempts remain; and a run whose steps
\* all COMPLETED, after retries or not, is COMPLETED.
C10_RetryThenSuccess ==
    /\ \A s \in Steps :
          (executions[s] # <<>> /\ executions[s][Len(executions[s])].kind = "ok") =>
              /\ HasStatus(s, "COMPLETED")
              /\ Result(s).attempts = Len(executions[s])
              /\ Result(s).output = executions[s][Len(executions[s])].output
              /\ Result(s).error = NoError
    /\ \A s \in Steps :
          (HasStatus(s, "FAILED") /\ executions[s] # <<>>) =>
              LET last == executions[s][Len(executions[s])]
              IN  ~(/\ last.kind = "error"
                    /\ is_retryable_error(last.error)
                    /\ Len(executions[s]) < step_map[s].max_retries)
    /\ (Done /\ \A s \in Steps : HasStatus(s, "COMPLETED")) =>
          /\ state.status = "COMPLETED"
          /\ raised = NoException

\* A step failed with a retryable error, was retried, succeeded, and the run COMPLETED.
C10_Witness ==
    /\ Done
    /\ state.status = "COMPLETED"
    /\ \E s \in Steps :
          /\ HasStatus(s, "COMPLETED")
          /\ Result(s).attempts >= 2
          /\ executions[s][1].kind = "error"
          /\ is_retryable_error(executions[s][1].error)

LastExecution(s) == executions[s][Len(executions[s])]

\* C11: when an attempt fails with an error that is not a timeout and that
\* is_retryable_error rejects, the step settles FAILED at once: no backoff and no
\* further attempt, attempts equal to the attempts made so far, and the raised
\* error in the result.
C11_NonRetryableErrorFailsAtOnce ==
    \A s \in Steps :
        (/\ executions[s] # <<>>
         /\ LastExecution(s).kind = "error"
         /\ ~is_retryable_error(LastExecution(s).error)) =>
            /\ task[s].pc = "returned"
            /\ HasStatus(s, "FAILED")
            /\ Result(s).attempts = Len(executions[s])
            /\ Result(s).error = LastExecution(s).error
            /\ Result(s).output = None

\* A step with attempts left settled FAILED on the non-retryable error of its
\* first attempt.
C11_Witness ==
    \E s \in Steps :
        /\ HasStatus(s, "FAILED")
        /\ Result(s).error = ErrMock
        /\ Result(s).attempts < step_map[s].max_retries
        /\ Len(executions[s]) = 1

AllTimedOut(s) ==
    /\ executions[s] # <<>>
    /\ \A i \in 1..Len(executions[s]) : executions[s][i].kind = "timeout"

\* C12: an attempt that times out is one failed attempt; while attempts <
\* max_retries it is followed by a backoff and another attempt although the
\* classifier rejects the timeout error; a step whose every attempt timed out
\* settles FAILED with attempts = max_retries and the error naming the step and
\* its timeout.
C12_TimeoutIsRetried ==
    \A s \in Steps :
        /\ (executions[s] # <<>> /\ LastExecution(s).kind = "timeout") =>
              /\ ~is_retryable_error(timed_out(s))
              /\ ~is_retryable_error(LastExecution(s).error)
              /\ IF Len(executions[s]) < step_map[s].max_retries
                 THEN /\ task[s].pc \in {"backoff", "attempt"}
                      /\ task[s].attempts = Len(executions[s])
                      /\ task[s].last_error = timed_out(s)
                      /\ ~Recorded(s)
                 ELSE /\ task[s].pc = "returned"
                      /\ HasStatus(s, "FAILED")
                      /\ Result(s).error = timed_out(s)
        /\ (AllTimedOut(s) /\ Recorded(s)) =>
              /\ HasStatus(s, "FAILED")
              /\ Result(s).attempts = step_map[s].max_retries
              /\ Result(s).attempts = Len(executions[s])
              /\ Result(s).error = timed_out(s)

\* Every attempt of a step with several attempts timed out.
C12_Witness ==
    \E s \in Steps :
        /\ AllTimedOut(s)
        /\ HasStatus(s, "FAILED")
        /\ Len(executions[s]) >= 2

NothingInvoked ==
    /\ \A s \in Steps : task[s].pc = "idle" /\ executions[s] = <<>> /\ context[s] = None
    /\ wave_no = 0

C14_UnknownDependencyFailsBeforeDispatch ==
    (call.entered /\ ~Resolves(dependency_graph, call.steps)) =>
        /\ Returned
        /\ raised.kind = "UnknownDependency"
        /\ \E s \in call.steps :
              /\ raised.names = {s}
              /\ raised.dep \in step_map[s].depends_on
              /\ raised.dep \notin call.steps
        /\ NothingInvoked
        /\ load_state(store_states, WorkflowId) = Some(state)
        /\ state.status = "FAILED"

\* The step of test_missing_dependency was submitted.
C14_Witness ==
    /\ call.api = "execute_workflow"
    /\ Returned
    /\ nonexistent \in step_map[1].depends_on
    /\ raised.kind = "UnknownDependency"
    /\ raised.dep = nonexistent

\* C15: a call of execute_workflow that has terminated, by returning or raising,
\* has called save_state exactly once, with the final status and end_time set, and
\* load_state yields that final state; before it terminates it has not saved.
C15_SavedOnceAtTermination ==
    call.entered =>
        IF Returned
        THEN /\ save_count = call.saves_before + 1
             /\ load_state(store_states, WorkflowId) = Some(state)
             /\ state.status \in {"COMPLETED", "FAILED"}
             /\ state.end_time # None
        ELSE save_count = call.saves_before

\* An execute_workflow run by resume_workflow failed in validation and saved the
\* state a second time.
C15_Witness ==
    /\ Done
    /\ call.api = "resume_workflow"
    /\ ~ValidDag
    /\ save_count = 2

Terminal(status) == status \in {"COMPLETED", "FAILED", "SKIPPED"}

\* C16: when execute_workflow has terminated on a valid DAG, every step handed to
\* it either has a StepResult with a terminal status or is named in the
\* unmet-dependencies error recorded in metadata, and not both.
C16_EveryStepAccounted ==
    (Done /\ ValidDag) =>
        \A s \in call.steps :
            LET recorded == Recorded(s) /\ Terminal(Result(s).status)
                named == /\ raised.kind = "UnmetDependencies"
                         /\ s \in raised.names
                         /\ state.metadata = raised
            IN  (recorded \/ named) /\ ~(recorded /\ named)

\* A run ended on unmet dependencies with one step recorded and one left pending.
C16_Witness ==
    /\ Done
    /\ raised.kind = "UnmetDependencies"
    /\ \E s, r \in call.steps : s \in raised.names /\ Recorded(r)

\* The events the latest call has emitted, and the positions among them of the
\* events of one type for one step.
CallEvents == SubSeq(progress_events, call.events_before + 1, Len(progress_events))

Positions(event_type, s) ==
    {i \in 1..Len(CallEvents) :
        CallEvents[i].event_type = event_type /\ CallEvents[i].step_name = s}

Loaded == call.loaded[1]
LoadedStatus(s, status) ==
    s \in DOMAIN Loaded.step_results /\ Loaded.step_results[s].status = status

\* resume_workflow was called on a stored state that is not COMPLETED.
Resuming ==
    /\ call.api = "resume_workflow"
    /\ call.loaded # None
    /\ Loaded.status # "COMPLETED"

\* C18: resume_workflow on a stored state that is not COMPLETED, with the original
\* list: a step R not COMPLETED there that depends on a step P COMPLETED there is
\* not rejected by validation, and the step_outputs of R hold the stored output of P.
C18_ResumeKeepsCompletedDependency ==
    (Resuming /\ call.list = Steps /\ ValidList) =>
        \A R \in Steps : \A P \in step_map[R].depends_on :
            (~LoadedStatus(R, "COMPLETED") /\ LoadedStatus(P, "COMPLETED")) =>
                /\ call.entered
                /\ raised.kind # "UnknownDependency"
                /\ context[R] # None =>
                      /\ P \in DOMAIN context[R][1]
                      /\ context[R][1][P] = Loaded.step_results[P].output

\* C19: resume_workflow invokes neither the condition nor execute of a step that
\* is COMPLETED in the loaded state: the step is not handed to execute_workflow
\* and has no task.
C19_ResumeSkipsCompleted ==
    (Resuming /\ call.entered) =>
        \A s \in Steps :
            LoadedStatus(s, "COMPLETED") =>
                /\ s \notin call.steps
                /\ task[s].pc = "idle"
                /\ context[s] = None
                /\ execution_count(s) = 0

\* resume_workflow ran the remaining step to its end while another step was
\* COMPLETED in the loaded state.
C19_Witness ==
    /\ Resuming
    /\ Done
    /\ call.list = Steps
    /\ \E s, r \in Steps :
          /\ LoadedStatus(s, "COMPLETED")
          /\ r \in call.steps
          /\ Dispatched(r)

\* C20 as stated: resume_workflow called with the original list does not execute
\* again a step that is FAILED or SKIPPED in the loaded state.
C20_ResumeLeavesFailedAndSkipped ==
    (Resuming /\ call.entered /\ call.list = Steps) =>
        \A s \in Steps :
            (LoadedStatus(s, "FAILED") \/ LoadedStatus(s, "SKIPPED")) =>
                execution_count(s) = 0

\* C20 amended: resume_workflow hands to execute_workflow every step of its list
\* that is FAILED or SKIPPED in the loaded state; when that run of a valid DAG has
\* ended, each of them whose dependencies are satisfied was dispatched again, and
\* executed again if its condition was met.
C20_ResumeRunsFailedAndSkippedAgain ==
    Resuming =>
        \A s \in call.list :
            (LoadedStatus(s, "FAILED") \/ LoadedStatus(s, "SKIPPED")) =>
                /\ call.entered
                /\ s \in call.steps
                /\ (Done /\ ValidDag /\ DependenciesSatisfied(s)) =>
                      /\ Dispatched(s)
                      /\ is_condition_met(step_map[s].condition, context[s][1]) = "true" =>
                            execution_count(s) >= 1

\* A step whose attempts had failed before the resume was executed again by it.
C20_Witness ==
    /\ Resuming
    /\ Done
    /\ call.list = Steps
    /\ \E s \in Steps :
          /\ LoadedStatus(s, "FAILED")
          /\ Loaded.step_results[s].started_at # None
          /\ execution_count(s) >= 1

\* A step in which resume_workflow is called, the state it finds in the store,
\* and what is left alone by a call that invokes no step.
ResumeIsCalled == resumes' = resumes + 1
Stored == load_state(store_states, WorkflowId)
CompletedIn(st, s) == s \in DOMAIN st.step_results /\ st.step_results[s].status = "COMPLETED"
NoStepInvoked == UNCHANGED <<task, context, executions, wave, wave_no>>

\* C21: when every step of the list passed to resume_workflow is COMPLETED in the
\* loaded state and the loaded status is not COMPLETED, resume_workflow sets the
\* status to COMPLETED, saves that state, returns it without raising and invokes
\* no step; step_results are those of the loaded state.
C21_ResumeWithNothingRemaining ==
    [][(/\ ResumeIsCalled
        /\ Stored # None
        /\ Stored[1].status # "COMPLETED"
        /\ \A s \in call'.list : CompletedIn(Stored[1], s)) =>
           /\ pc' = "done"
           /\ raised' = NoException
           /\ ~call'.entered
           /\ state'.status = "COMPLETED"
           /\ state'.step_results = Stored[1].step_results
           /\ state' = [Stored[1] EXCEPT !.status = "COMPLETED"]
           /\ save_count' = save_count + 1
           /\ load_state(store_states', WorkflowId) = Some(state')
           /\ NoStepInvoked
           /\ UNCHANGED progress_events]_vars

\* resume_workflow was given only the step that had COMPLETED in a run that
\* FAILED, and returned the state COMPLETED.
C21_Witness ==
    /\ Resuming
    /\ Returned
    /\ ~call.entered
    /\ call.list # {}
    /\ \A s \in call.list : LoadedStatus(s, "COMPLETED")
    /\ Loaded.status = "FAILED"
    /\ raised = NoException
    /\ Persisted.status = "COMPLETED"

\* C22: resume_workflow for a workflow id that has no stored state raises the
\* not-found error, invokes no step, emits no progress event and leaves the store
\* as it was, without a record for that id.
C22_ResumeNotFound ==
    [][(ResumeIsCalled /\ Stored = None) =>
           /\ pc' = "done"
           /\ raised' = WorkflowNotFound
           /\ raised'.kind = "NotFound"
           /\ ~call'.entered
           /\ NoStepInvoked
           /\ UNCHANGED <<progress_events, store_states, save_count>>
           /\ WorkflowId \notin DOMAIN store_states']_vars

\* resume_workflow was called before any state was stored.
C22_Witness ==
    /\ call.api = "resume_workflow"
    /\ call.loaded = None
    /\ Returned
    /\ raised.kind = "NotFound"
    /\ store_states = <<>>

\* C23: resume_workflow on a workflow whose stored status is COMPLETED raises the
\* already-completed error, invokes no step and leaves the stored state, its
\* status and every step result, as it was; so a second resume in a row finds
\* the store as the first one left it.
C23_ResumeAlreadyCompleted ==
    [][(ResumeIsCalled /\ Stored # None /\ Stored[1].status = "COMPLETED") =>
           /\ pc' = "done"
           /\ raised' = WorkflowAlreadyCompleted
           /\ raised'.kind = "AlreadyCompleted"
           /\ ~call'.entered
           /\ NoStepInvoked
           /\ UNCHANGED <<progress_events, store_states, save_count>>
           /\ load_state(store_states', WorkflowId) = Stored]_vars

\* A workflow whose steps all COMPLETED was resumed twice in a row.
C23_Witness ==
    /\ resumes = 2
    /\ call.api = "resume_workflow"
    /\ raised.kind = "AlreadyCompleted"
    /\ call.saves_before = 1
    /\ save_count = 1
    /\ \A s \in Steps : LoadedStatus(s, "COMPLETED")
    /\ Persisted = Loaded

\* What the calls made so far leave under an id: the state of the last save_state
\* for it, unless a delete_state for it or a clear came later.
RECURSIVE LastSaved(_, _)
LastSaved(calls, workflow_id) ==
    IF calls = <<>> THEN None
    ELSE LET c == calls[Len(calls)]
         IN  CASE c.op = "clear" -> None
               [] c.op = "delete_state" /\ c.workflow_id = workflow_id -> None
               [] c.op = "save_state" /\ c.workflow_id = workflow_id -> c.saved
               [] OTHER -> LastSaved(SubSeq(calls, 1, Len(calls) - 1), workflow_id)

\* C24: for every sequence of calls on the in-memory store, load_state(id) returns
\* the state most recently passed to save_state with that workflow_id, a later
\* save replacing an earlier one, and returns absent when none was saved for the
\* id or it was removed since.
C24_LoadReturnsLastSaved ==
    /\ \A i \in 1..Len(store_calls) :
          store_calls[i].op = "load_state" =>
              store_calls[i].result =
                  LastSaved(SubSeq(store_calls, 1, i - 1), store_calls[i].workflow_id)
    /\ \A workflow_id \in WorkflowIds :
          load_state(store_states, workflow_id) = LastSaved(store_calls, workflow_id)

\* Two different states were saved under one id and the second was loaded.
C24_Witness ==
    /\ Len(store_calls) >= 3
    /\ store_calls[1].op = "save_state"
    /\ store_calls[2].op = "save_state"
    /\ store_calls[1].workflow_id = store_calls[2].workflow_id
    /\ store_calls[1].saved # store_calls[2].saved
    /\ store_calls[3].op = "load_state"
    /\ store_calls[3].workflow_id = store_calls[2].workflow_id
    /\ store_calls[3].result = store_calls[2].saved

\* C25: delete_state(id) leaves no state under id and id out of list_workflows;
\* deleting again, or deleting an id that has no state, changes nothing; the
\* states of the other ids stay as they were; and list_workflows returns exactly
\* the ids saved and not removed since, changing nothing.
C25_DeleteIsIdempotentAndLocal ==
    [][Len(store_calls') = Len(store_calls) + 1 =>
          LET c == store_calls'[Len(store_calls')]
          IN  /\ c.op = "delete_state" =>
                    /\ load_state(store_states', c.workflow_id) = None
                    /\ c.workflow_id \notin list_workflows(store_states')
                    /\ delete_state(store_states', c.workflow_id) = store_states'
                    /\ c.workflow_id \notin DOMAIN store_states =>
                          store_states' = store_states
                    /\ \A other \in WorkflowIds \ {c.workflow_id} :
                          load_state(store_states', other) = load_state(store_states, other)
              /\ c.op = "list_workflows" =>
                    /\ c.result = {id \in WorkflowIds : LastSaved(store_calls, id) # None}
                    /\ UNCHANGED store_states]_vars

\* An id without a state was deleted while another id had one, which was listed.
C25_Witness ==
    /\ Len(store_calls) >= 4
    /\ store_calls[1].op = "save_state"
    /\ store_calls[1].workflow_id = OtherWorkflowId
    /\ store_calls[2].op = "delete_state"
    /\ store_calls[2].workflow_id = WorkflowId
    /\ store_calls[3].op = "list_workflows"
    /\ store_calls[3].result = {OtherWorkflowId}
    /\ store_calls[4].op = "delete_state"
    /\ store_calls[4].workflow_id = OtherWorkflowId
    /\ store_states = <<>>

\* WorkflowStatus values after which a workflow does not go on.
TerminalStatus(status) == status \in {"COMPLETED", "FAILED", "CANCELLED"}

C27_ReturnsIffCompleted ==
    Done =>
        /\ raised = NoException <=> state.status = "COMPLETED"
        /\ raised = NoException =>
              /\ load_state(store_states, WorkflowId) = Some(state)
              /\ state.metadata = NoException
        /\ raised # NoException =>
              /\ Persisted.status = "FAILED"
              /\ Persisted.metadata = raised
              /\ Persisted.metadata # NoException

\* A run ended with the aggregate error, which is in the stored metadata.
C27_Witness ==
    /\ Done
    /\ call.api = "execute_workflow"
    /\ raised.kind = "WorkflowFailed"
    /\ raised.names # {}
    /\ Persisted.metadata = raised

\* C28: while a wave runs, every step of it reads the same step_outputs: the
\* outputs recorded for the steps that were completed when the wave was
\* dispatched.  No step of the wave is a key of it, whether it has settled or
\* not, so neither the condition nor execute of a step sees the result of
\* another step of its wave.
C28_WaveSnapshot ==
    pc = "gather" =>
        \A s \in wave :
            /\ context[s] # None
            /\ DOMAIN step_outputs_of(s) = {n \in completed_steps : Recorded(n)}
            /\ \A n \in DOMAIN step_outputs_of(s) : step_outputs_of(s)[n] = Result(n).output
            /\ \A r \in wave :
                  /\ step_outputs_of(r) = step_outputs_of(s)
                  /\ r \notin DOMAIN step_outputs_of(s)

\* Two steps that depend on a completed step run in one wave; one of them has
\* returned and the other has not started.
C28_Witness ==
    /\ pc = "gather"
    /\ \E s, r \in wave :
          /\ s # r
          /\ task[s].pc = "returned"
          /\ HasStatus(s, "COMPLETED")
          /\ task[r].pc = "created"
          /\ step_outputs_of(r) # <<>>
          /\ step_map[r].depends_on # {}

\* C29: dispatch is wave-synchronous.  Every task in flight belongs to the wave
\* being gathered; while a wave is gathered no step outside it is started, ready
\* or not; a step of an earlier wave has settled and has its result; and when the
\* loop goes on or ends, every step dispatched has settled and is recorded, those
\* that ran beside a step that failed or raised included.
C29_WaveSynchronous ==
    /\ \A s \in InFlight : pc = "gather" /\ s \in wave /\ task[s].wave = wave_no
    /\ pc = "gather" => \A s \in pending_steps \ wave : ~Dispatched(s)
    /\ \A s \in Steps :
          (Dispatched(s) /\ task[s].wave < wave_no) =>
              task[s].pc \in {"returned", "raised"} /\ Recorded(s)
    /\ (pc \in {"loop", "done"} /\ call.entered) =>
          \A s \in Steps :
              Dispatched(s) =>
                  /\ task[s].pc \in {"returned", "raised"}
                  /\ Recorded(s)
                  /\ task[s].pc = "returned" /\ executions[s] # <<>> =>
                        IF LastExecution(s).kind = "ok"
                        THEN HasStatus(s, "COMPLETED")
                        ELSE HasStatus(s, "FAILED")

\* A step of the wave has raised and another has returned COMPLETED while a third
\* step, ready since the wave began, has not been started.
C29_Witness ==
    /\ pc = "gather"
    /\ \E s, r \in wave : \E q \in pending_steps \ wave :
          /\ task[s].pc = "raised"
          /\ task[r].pc = "returned"
          /\ HasStatus(r, "COMPLETED")
          /\ step_map[q].depends_on \subseteq completed_steps
          /\ ~Dispatched(q)

\* C30: step_results of the WorkflowState is written only by the scheduling loop
\* once the wave has settled: it never changes in a step that leaves a task of
\* the wave awaiting its execute or its backoff.
C30_StateWrittenOnlyByLoop ==
    [][state'.step_results # state.step_results =>
          \A s \in wave : task'[s].pc \notin {"attempt", "backoff"}]_vars

\* The first n of the names given, in the order in which the steps were submitted.
RECURSIVE FirstSubmitted(_, _)
FirstSubmitted(names, n) ==
    IF n = 0 \/ names = {} THEN {}
    ELSE {First(names)} \cup FirstSubmitted(names \ {First(names)}, n - 1)

\* C31: the steps dispatched in a wave are the first max_parallel_steps ready
\* steps in the order in which the steps were submitted.
C31_DispatchInSubmissionOrder ==
    [][(pc = "loop" /\ pc' = "gather") =>
          wave' = FirstSubmitted(
                      get_executable_steps(pending_steps, completed_steps, dependency_graph),
                      max_parallel_steps)]_vars

\* C32: for a dependency graph whose references all resolve, validation raises
\* the circular-dependency error if and only if the graph has a directed cycle, a
\* step that depends on itself included; an acyclic graph, with steps that share
\* a dependency or not, is accepted and the run begins.
C32_RaisesIffCyclic ==
    (call.entered /\ Resolves(dependency_graph, Steps)) =>
        /\ raised.kind = "CircularDependency" <=> Cyclic(dependency_graph, Steps)
        /\ (\E s \in Steps : s \in step_map[s].depends_on) => raised.kind = "CircularDependency"
        /\ ~Cyclic(dependency_graph, Steps) => (raised = NoException /\ pc = "loop")

\* A diamond was accepted: step 4 depends on steps 2 and 3, which both depend on
\* step 1.
C32_Witness ==
    /\ call.entered
    /\ pc = "loop"
    /\ raised = NoException
    /\ step_map[1].depends_on = {}
    /\ step_map[2].depends_on = {1}
    /\ step_map[3].depends_on = {1}
    /\ step_map[4].depends_on = {2, 3}

\* C33: the step named in a circular-dependency error lies on a dependency cycle.
C33_NamedStepIsOnCycle ==
    raised.kind = "CircularDependency" =>
        \A s \in raised.names : OnCycle(dependency_graph, s)

\* C34: with progress events enabled, when a run of execute_workflow on a valid
\* DAG has ended, every step that has a StepResult has exactly one step_complete
\* event in the log of the run, carrying the status of that result; and a SKIPPED
\* step has no step_start event.
C34_OneCompleteEventPerResult ==
    (enable_progress_events /\ Done /\ ValidDag) =>
        \A s \in Steps :
            Recorded(s) =>
                /\ Cardinality(Positions("step_complete", s)) = 1
                /\ \A i \in Positions("step_complete", s) :
                      CallEvents[i].step_status = Result(s).status
                /\ HasStatus(s, "SKIPPED") => Positions("step_start", s) = {}

\* C35: the sleep taken after the k-th failed attempt of a step, 1 <= k <
\* max_retries, has base delay min(100 ms * 2^k, 5000 ms), 200 ms after the first
\* failure and 5 s from k = 6 on, and lies within [0.75, 1.25] times that base;
\* one sleep was taken for each failed attempt that another attempt follows, and
\* none after the last attempt.
C35_BackoffSchedule ==
    \A s \in Steps :
        /\ task[s].pc = "backoff" =>
              LET k == task[s].attempts
                  base == IF 100 * 2^k <= 5000 THEN 100 * 2^k ELSE 5000
              IN  /\ 1 <= k
                  /\ k < step_map[s].max_retries
                  /\ k = Len(executions[s])
                  /\ LastExecution(s).kind # "ok"
                  /\ task[s].backoffs = k
                  /\ k = 1 => base = 200
                  /\ k >= 6 => base = 5000
                  /\ 3 * base <= 4 * task[s].sleep
                  /\ 4 * task[s].sleep <= 5 * base
        /\ task[s].pc = "attempt" =>
              /\ task[s].sleep = 0
              /\ task[s].backoffs = Len(executions[s])
        /\ (task[s].pc = "returned" /\ executions[s] # <<>>) =>
              task[s].backoffs = Len(executions[s]) - 1

\* The step sleeps after its sixth failed attempt, for three quarters of 5 s.
C35_Witness ==
    \E s \in Steps :
        /\ task[s].pc = "backoff"
        /\ task[s].attempts = 6
        /\ task[s].sleep = 3750

\* C36: the default is_retryable_error returns true if and only if the lower-cased
\* message contains at least one retryable pattern and no non-retryable pattern; a
\* message with patterns of both lists, or of neither, is not retryable.
C36_RetryableIffOnlyRetryablePatterns ==
    (function_call.function = "is_retryable_error" /\ function_call.result # None) =>
        LET error_str == lower(function_call.arguments[1])
            retryable == \E pattern \in retryable_patterns : Contains(error_str, pattern)
            non_retryable ==
                \E pattern \in non_retryable_patterns : Contains(error_str, pattern)
        IN  /\ function_call.result[1] <=> (retryable /\ ~non_retryable)
            /\ (retryable /\ non_retryable) => ~function_call.result[1]
            /\ (~retryable /\ ~non_retryable) => ~function_call.result[1]

\* A message with a pattern of each list, one of them in upper case, was classified
\* as not retryable.
C36_Witness ==
    /\ function_call.function = "is_retryable_error"
    /\ function_call.arguments = <<"TemporaryINVALID">>
    /\ function_call.result = Some(FALSE)

\* C37: condition_min_output_words(step_name, n) returns true if and only if
\* step_name is a key of step_outputs, its output stringifies to a non-empty text and
\* that text has at least n whitespace-separated tokens, for every n and every output.
C37_MinWordsIffNonEmptyWithTokens ==
    (function_call.function = "condition_min_output_words"
     /\ function_call.result # None) =>
        LET step_name == function_call.arguments[1]
            n == function_call.arguments[2]
            outputs == function_call.arguments[3]
        IN  function_call.result[1] <=>
                /\ step_name \in DOMAIN outputs
                /\ outputs[step_name] # None
                /\ outputs[step_name][1] # <<>>
                /\ WordCount(outputs[step_name][1]) >= n

\* C38: for every valid DAG and every max_parallel_steps >= 1, when every attempt
\* eventually settles, execute_workflow terminates: each iteration of the scheduling
\* loop removes at least one step from pending, at most |steps| waves run, and the
\* call ends with the state persisted.
C38_RunTerminates ==
    /\ [][(pc = "gather" /\ pc' = "loop") =>
             (pending_steps' \subseteq pending_steps /\ pending_steps' # pending_steps)]_vars
    /\ []((call.entered /\ ValidDag) => wave_no <= Cardinality(call.steps))
    /\ (call.entered /\ ValidDag /\ max_parallel_steps >= 1)
           ~> (Returned /\ save_count = call.saves_before + 1
                        /\ WorkflowId \in DOMAIN store_states)

\* A chain of three steps was run in three waves and its state persisted.
C38_Witness ==
    /\ Done
    /\ ValidDag
    /\ Cardinality(call.steps) = 3
    /\ wave_no = 3
    /\ pending_steps = {}
    /\ WorkflowId \in DOMAIN store_states
    /\ Persisted.status = "COMPLETED"

\* C39: with max_parallel_steps = 0 and a non-empty valid list, the scheduling loop
\* dispatches no step and pending never shrinks: execute_workflow never ends, raises
\* no error and never persists a state.
C39_ZeroParallelNeverEnds ==
    (call.entered /\ max_parallel_steps = 0 /\ ValidDag /\ call.steps # {}) =>
        /\ ~Returned
        /\ pc \in {"loop", "gather"}
        /\ wave = {}
        /\ pending_steps = call.steps
        /\ \A s \in Steps : ~Dispatched(s) /\ executions[s] = <<>>
        /\ raised = NoException
        /\ save_count = call.saves_before
        /\ store_states = <<>>
        /\ state.status = "RUNNING"

\* The loop has gone round three times with an empty wave and both steps pending.
C39_Witness ==
    /\ call.entered
    /\ max_parallel_steps = 0
    /\ wave_no = 3
    /\ pc = "loop"
    /\ Cardinality(pending_steps) = 2

\* C40: after resume_workflow has run the remaining steps, whether it returns or
\* raises, the state stored under the workflow id still holds the StepResult, status
\* COMPLETED and output, of every step that was COMPLETED before the resume.
C40_ResumeKeepsCompletedResults ==
    (Resuming /\ Done) =>
        \A s \in DOMAIN Loaded.step_results :
            LoadedStatus(s, "COMPLETED") =>
                /\ WorkflowId \in DOMAIN store_states
                /\ s \in DOMAIN Persisted.step_results
                /\ Persisted.step_results[s].status = "COMPLETED"
                /\ Persisted.step_results[s].output = Loaded.step_results[s].output

====
